---- MODULE Spec2Model ----
(***************************************************************************)
(* Model of the resume screener (src/app.py): PDF text clean-up, keyword   *)
(* extraction and highlighting, JSON extraction from the oracle's raw      *)
(* response, and the analysis call with the report main() renders.         *)
(*                                                                         *)
(* A Python str is a sequence of one-character strings.  A Python value    *)
(* that may be None, or that comes out of json.loads, is a record tagged   *)
(* by its type in field t (None, str, int, float, bool, null, list, dict). *)
(***************************************************************************)
EXTENDS Integers, Sequences, FiniteSets, TLC

VARIABLES
  uploaded_file,     \* the uploaded document as the PDF reader sees it
  resume_text,       \* extract_resume_text's return value (tagged, or None)
  job_description,   \* the text area's content
  keywords,          \* get_keywords' return value
  highlighted_text,  \* highlight_keywords' return value
  sent,              \* what the oracle wrote: prose, fence, payload, prose
  response_text,     \* response.text, the oracle's raw output
  json_result,       \* extract_json_from_response's return value
  analysis_result,   \* get_gemini_analysis' return value
  oracle_calls,      \* number of generate_content calls of the current request
  report,            \* what main() shows for the analysis
  pc                 \* position of the running handler

vars == <<uploaded_file, resume_text, job_description, keywords, highlighted_text,
          sent, response_text, json_result, analysis_result, oracle_calls, report, pc>>

(***************************************************************************)
(* Bounds of the model.                                                    *)
(***************************************************************************)
MaxJdPieces == 4
MaxJdWords == 2
MaxResumePieces == 3
MaxPageLen == 1
MaxPages == 3
MaxProse == 1

(***************************************************************************)
(* Characters.                                                             *)
(***************************************************************************)
UpperLetters ==
  <<"A", "B", "C", "D", "E", "F", "G", "H", "I", "J", "K", "L", "M",
    "N", "O", "P", "Q", "R", "S", "T", "U", "V", "W", "X", "Y", "Z">>

LowerLetters ==
  <<"a", "b", "c", "d", "e", "f", "g", "h", "i", "j", "k", "l", "m",
    "n", "o", "p", "q", "r", "s", "t", "u", "v", "w", "x", "y", "z">>

Digits ==
  <<"0", "1", "2", "3", "4", "5", "6", "7", "8", "9">>

Range(s) == {s[i] : i \in DOMAIN s}

\* \w of the re module, on ASCII text
WordChars == Range(UpperLetters) \cup Range(LowerLetters) \cup Range(Digits) \cup {"_"}

IsWordChar(c) == c \in WordChars

\* \s of the re module and the characters str.strip() removes, on ASCII text
SpaceChars == {" ", "\t", "\n", "\r", "\f"}

IsSpace(c) == c \in SpaceChars

\* str.lower() on one character
LowerOf == [c \in Range(UpperLetters) |->
              LowerLetters[CHOOSE i \in DOMAIN UpperLetters : UpperLetters[i] = c]]

LowerChar(c) == IF c \in DOMAIN LowerOf THEN LowerOf[c] ELSE c

\* str.lower()
Lower(s) == [i \in DOMAIN s |-> LowerChar(s[i])]

\* str.strip()
StripWs(s) ==
  IF \A i \in DOMAIN s : IsSpace(s[i])
    THEN <<>>
    ELSE LET first == CHOOSE i \in DOMAIN s :
                        ~IsSpace(s[i]) /\ \A j \in 1..(i - 1) : IsSpace(s[j])
             last == CHOOSE i \in DOMAIN s :
                       ~IsSpace(s[i]) /\ \A j \in (i + 1)..Len(s) : IsSpace(s[j])
         IN SubSeq(s, first, last)

\* Concatenation of a sequence of strings
RECURSIVE Join(_)
Join(parts) == IF parts = <<>> THEN <<>> ELSE Head(parts) \o Join(Tail(parts))

\* All sequences over S of length at most n
BoundedSeq(S, n) == UNION {[1..k -> S] : k \in 0..n}

None == [t |-> "None"]
PyStr(s) == [t |-> "str", v |-> s]

(***************************************************************************)
(* STOPWORDS, src/app.py lines 18-23.                                      *)
(***************************************************************************)
STOPWORDS ==
  {
    <<"t", "h", "e">>, <<"i", "n">>, <<"w", "i", "t", "h">>,
    <<"a", "n", "d">>, <<"o", "r">>, <<"f", "o", "r">>,
    <<"t", "o">>, <<"o", "f">>, <<"a">>,
    <<"a", "n">>, <<"i", "s">>, <<"o", "n">>,
    <<"b", "y">>, <<"a", "s">>, <<"a", "t">>,
    <<"f", "r", "o", "m">>, <<"t", "h", "a", "t">>, <<"b", "e">>,
    <<"a", "r", "e">>, <<"w", "a", "s">>, <<"w", "e", "r", "e">>,
    <<"w", "h", "i", "c", "h">>, <<"t", "h", "i", "s">>, <<"i", "t">>,
    <<"h", "a", "s">>, <<"h", "a", "v", "e">>, <<"w", "i", "l", "l">>,
    <<"c", "a", "n">>, <<"s", "h", "o", "u", "l", "d">>, <<"i", "n", "t", "o">>,
    <<"b", "u", "t">>, <<"s", "u", "c", "h">>, <<"t", "h", "e", "i", "r">>,
    <<"u", "p">>, <<"o", "v", "e", "r">>, <<"a", "b", "o", "u", "t">>,
    <<"n", "o", "t">>, <<"i", "t", "'", "s">>, <<"s", "o">>,
    <<"i", "f">>, <<"n", "o">>, <<"e", "t", "c">>
  }

(***************************************************************************)
(* extract_resume_text, src/app.py lines 29-42.                            *)
(***************************************************************************)
\* re.sub(r'\s+', ' ', s): every maximal run of whitespace becomes one space
RECURSIVE CollapseWs(_)
CollapseWs(s) ==
  IF s = <<>> THEN <<>>
  ELSE IF IsSpace(Head(s))
    THEN IF Len(s) > 1 /\ IsSpace(s[2])
           THEN CollapseWs(Tail(s))
           ELSE <<" ">> \o CollapseWs(Tail(s))
    ELSE <<Head(s)>> \o CollapseWs(Tail(s))

\* page.extract_text() or ""
PageTextOrEmpty(page) == IF page.t = "None" THEN <<>> ELSE page.v

\* The loop of lines 34-38: text += cleaned page + " "
RECURSIVE AppendPages(_, _)
AppendPages(text, pages) ==
  IF pages = <<>> THEN text
  ELSE AppendPages(text \o StripWs(CollapseWs(PageTextOrEmpty(Head(pages)))) \o <<" ">>,
                   Tail(pages))

extract_resume_text(file) ==
  IF file.t = "unreadable"
    THEN None
    ELSE PyStr(StripWs(AppendPages(<<>>, file.pages)))

(***************************************************************************)
(* get_keywords, src/app.py lines 126-130.                                 *)
(***************************************************************************)
\* re.findall(r'\b\w+\b', s) as a set: the maximal runs of word characters
WordRuns(s) ==
  {<<i, j>> \in (DOMAIN s) \X (DOMAIN s) :
     /\ i <= j
     /\ \A k \in i..j : IsWordChar(s[k])
     /\ (i = 1 \/ ~IsWordChar(s[i - 1]))
     /\ (j = Len(s) \/ ~IsWordChar(s[j + 1]))}

FindAllWords(s) == {SubSeq(s, r[1], r[2]) : r \in WordRuns(s)}

get_keywords_keeps_stopwords(jd) ==
  {w \in FindAllWords(Lower(jd)) : Len(w) > 2}

get_keywords(jd) ==
  {w \in FindAllWords(Lower(jd)) : w \notin STOPWORDS /\ Len(w) > 2}

(***************************************************************************)
(* highlight_keywords, src/app.py lines 133-147.                           *)
(***************************************************************************)
\* The replacement's opening and closing tags, line 144
SpanOpen ==
  <<"<", "s", "p", "a", "n", " ", "s", "t", "y", "l", "e", "=", "'", "b", "a", "c",
    "k", "g", "r", "o", "u", "n", "d", "-", "c", "o", "l", "o", "r", ":", " ", "#",
    "F", "F", "F", "5", "9", "D", ";", " ", "c", "o", "l", "o", "r", ":", " ", "#",
    "0", "0", "0", "0", "0", "0", ";", "'", ">">>

SpanClose ==
  <<"<", "/", "s", "p", "a", "n", ">">>

\* \b at the gap before position p of s (p in 1..Len(s)+1)
WordBoundaryAt(s, p) ==
  LET before == p > 1 /\ IsWordChar(s[p - 1])
      after == p <= Len(s) /\ IsWordChar(s[p])
  IN before # after

\* One alternative, re.escape(k), matches at p exactly as written
AltMatchesCaseSensitive(k, s, p) ==
  /\ p + Len(k) - 1 <= Len(s)
  /\ \A j \in DOMAIN k : s[p + j - 1] = k[j]

\* One alternative, re.escape(k), matches at p under re.IGNORECASE.  A keyword
\* is made of word characters only, which re.escape leaves as they are.
AltMatches(k, s, p) ==
  /\ p + Len(k) - 1 <= Len(s)
  /\ \A j \in DOMAIN k : LowerChar(s[p + j - 1]) = LowerChar(k[j])

\* The alternation matching anywhere, without the two \b
PatternMatchLenNoBoundary(order, s, p) ==
  LET hits == {i \in DOMAIN order : AltMatches(order[i], s, p)}
  IN IF hits = {} THEN 0
     ELSE Len(order[CHOOSE i \in hits : \A j \in hits : i <= j])

\* Length of the match of \b(k1|k2|...)\b starting at p, 0 when there is none:
\* the first alternative, in the pattern's order, that matches and is followed
\* by a word boundary (the regex backtracks into the next alternative)
PatternMatchLen(order, s, p) ==
  LET hits == {i \in DOMAIN order :
                 /\ AltMatches(order[i], s, p)
                 /\ WordBoundaryAt(s, p + Len(order[i]))}
  IN IF ~WordBoundaryAt(s, p) \/ hits = {} THEN 0
     ELSE Len(order[CHOOSE i \in hits : \A j \in hits : i <= j])

\* pattern.sub(...) from position pos on: one left-to-right scan, each match
\* replaced by the matched text between the tags, the scan resuming after it
RECURSIVE PatternSub(_, _, _)
PatternSub(order, s, pos) ==
  IF pos > Len(s) THEN <<>>
  ELSE LET n == PatternMatchLen(order, s, pos)
       IN IF n > 0
            THEN SpanOpen \o SubSeq(s, pos, pos + n - 1) \o SpanClose
                   \o PatternSub(order, s, pos + n)
            ELSE <<s[pos]>> \o PatternSub(order, s, pos + 1)

\* The pattern \b()\b of an empty keyword set: an empty match at every word boundary
RECURSIVE EmptyPatternSub(_, _)
EmptyPatternSub(s, pos) ==
  (IF WordBoundaryAt(s, pos) THEN SpanOpen \o SpanClose ELSE <<>>)
    \o (IF pos > Len(s) THEN <<>> ELSE <<s[pos]>> \o EmptyPatternSub(s, pos + 1))

\* The orders in which a Python set may be iterated
Orderings(S) == {f \in [1..Cardinality(S) -> S] : Range(f) = S}

highlight_keywords_without_guard(text, jd, order) ==
  IF get_keywords(jd) = {}
    THEN EmptyPatternSub(text, 1)
    ELSE PatternSub(order, text, 1)

\* order is the order in which '|'.join iterates the keyword set
highlight_keywords(text, jd, order) ==
  IF get_keywords(jd) = {}
    THEN text
    ELSE PatternSub(order, text, 1)

(***************************************************************************)
(* Inputs of the model.                                                    *)
(***************************************************************************)
\* Characters of a PDF page's text
PageChars == {"a", " ", "\n"}

\* What page.extract_text() returns: a string, or None for a page without text
PageTexts == {None} \cup {PyStr(s) : s \in BoundedSeq(PageChars, MaxPageLen)}

\* What PdfReader makes of the upload: its pages, or an exception
UploadedFiles ==
  {[t |-> "pdf", pages |-> ps] : ps \in BoundedSeq(PageTexts, MaxPages)}
    \cup {[t |-> "unreadable", pages |-> <<>>]}

\* Job descriptions of the keyword extractor, piece by piece
JdPieces == {<<"t", "h", "e">>, <<"t">>, <<"e">>, <<"T">>, <<"_">>, <<" ">>, <<"-">>}

JobDescriptions == {Join(ps) : ps \in BoundedSeq(JdPieces, MaxJdPieces)}

\* Job descriptions and resume texts of the highlighter, word by word
JdWords == {<<"a", "a", "b">>, <<"A", "b", "a">>, <<"a", "b">>, <<"t", "h", "e">>}

RECURSIVE JoinWords(_)
JoinWords(ws) ==
  IF ws = <<>> THEN <<>>
  ELSE IF Len(ws) = 1 THEN Head(ws)
  ELSE Head(ws) \o <<" ">> \o JoinWords(Tail(ws))

HighlightJobDescriptions == {JoinWords(ws) : ws \in BoundedSeq(JdWords, MaxJdWords)}

ResumePieces ==
  {<<"a", "a", "b">>, <<"A", "a", "B">>, <<"a", "b", "a">>, <<"a">>, <<" ">>, <<"t", "h", "e">>}

ResumeTexts == {Join(ps) : ps \in BoundedSeq(ResumePieces, MaxResumePieces)}

(***************************************************************************)
(* The state before any handler has run.                                   *)
(***************************************************************************)
NoFile == [t |-> "none", pages |-> <<>>]

NoOracle == [before |-> <<>>, fence |-> <<<<>>, <<>>>>, payload |-> <<>>, after |-> <<>>]

NoReport == [status |-> "none"]

(***************************************************************************)
(* Reading the resume: extract_resume_text on an uploaded file.            *)
(***************************************************************************)
InitPdf ==
  /\ uploaded_file \in UploadedFiles
  /\ resume_text = None
  /\ job_description = <<>>
  /\ keywords = {}
  /\ highlighted_text = <<>>
  /\ sent = NoOracle
  /\ response_text = <<>>
  /\ json_result = None
  /\ analysis_result = None
  /\ oracle_calls = 0
  /\ report = NoReport
  /\ pc = "input"

ExtractResumeText ==
  /\ pc = "input"
  /\ resume_text' = extract_resume_text(uploaded_file)
  /\ pc' = "done"
  /\ UNCHANGED <<uploaded_file, job_description, keywords, highlighted_text, sent,
                 response_text, json_result, analysis_result, oracle_calls, report>>

NextPdf == ExtractResumeText

SpecPdf == InitPdf /\ [][NextPdf]_vars

(***************************************************************************)
(* Keyword extraction: get_keywords on a job description.                  *)
(***************************************************************************)
InitKw ==
  /\ uploaded_file = NoFile
  /\ resume_text = None
  /\ job_description \in JobDescriptions
  /\ keywords = {}
  /\ highlighted_text = <<>>
  /\ sent = NoOracle
  /\ response_text = <<>>
  /\ json_result = None
  /\ analysis_result = None
  /\ oracle_calls = 0
  /\ report = NoReport
  /\ pc = "input"

GetKeywords ==
  /\ pc = "input"
  /\ keywords' = get_keywords(job_description)
  /\ pc' = "done"
  /\ UNCHANGED <<uploaded_file, resume_text, job_description, highlighted_text, sent,
                 response_text, json_result, analysis_result, oracle_calls, report>>

NextKw == GetKeywords

SpecKw == InitKw /\ [][NextKw]_vars

(***************************************************************************)
(* Highlighting: highlight_keywords on a resume text and a job description *)
(* (called at line 319 of main), on every pair of texts, the empty ones    *)
(* included.                                                               *)
(***************************************************************************)
InitHl ==
  /\ uploaded_file = NoFile
  /\ resume_text \in {PyStr(s) : s \in ResumeTexts}
  /\ job_description \in HighlightJobDescriptions
  /\ keywords = {}
  /\ highlighted_text = <<>>
  /\ sent = NoOracle
  /\ response_text = <<>>
  /\ json_result = None
  /\ analysis_result = None
  /\ oracle_calls = 0
  /\ report = NoReport
  /\ pc = "input"

HighlightKeywords ==
  /\ pc = "input"
  /\ keywords' = get_keywords(job_description)
  /\ \E order \in Orderings(get_keywords(job_description)) :
       highlighted_text' = highlight_keywords(resume_text.v, job_description, order)
  /\ pc' = "done"
  /\ UNCHANGED <<uploaded_file, resume_text, job_description, sent,
                 response_text, json_result, analysis_result, oracle_calls, report>>

NextHl == HighlightKeywords

SpecHl == InitHl /\ [][NextHl]_vars

(***************************************************************************)
(* Properties of the resume text, the keyword set and the highlighted text.*)
(***************************************************************************)
\* s without its whitespace characters
RECURSIVE WithoutWs(_)
WithoutWs(s) ==
  IF s = <<>> THEN <<>>
  ELSE IF IsSpace(Head(s)) THEN WithoutWs(Tail(s))
  ELSE <<Head(s)>> \o WithoutWs(Tail(s))

RECURSIVE PagesWithoutWs(_)
PagesWithoutWs(pages) ==
  IF pages = <<>> THEN <<>>
  ELSE WithoutWs(PageTextOrEmpty(Head(pages))) \o PagesWithoutWs(Tail(pages))

\* No run of two whitespace characters, none leading, none trailing
IsNormalized(s) ==
  /\ \A i \in 1..(Len(s) - 1) : ~(IsSpace(s[i]) /\ IsSpace(s[i + 1]))
  /\ s # <<>> => ~IsSpace(s[1]) /\ ~IsSpace(s[Len(s)])

\* C10: the text extract_resume_text builds from any sequence of pages has no
\* run of two or more whitespace characters, no leading or trailing whitespace,
\* and holds the pages' text in page order.
C10_ResumeTextNormalized ==
  (pc = "done" /\ uploaded_file.t = "pdf") =>
    /\ resume_text.t = "str"
    /\ IsNormalized(resume_text.v)
    /\ WithoutWs(resume_text.v) = PagesWithoutWs(uploaded_file.pages)

\* A lowercase word token
IsLowerWord(k) ==
  /\ k # <<>>
  /\ \A i \in DOMAIN k : k[i] \in WordChars /\ k[i] \notin Range(UpperLetters)

\* C6: every member of the keyword set get_keywords returns is a lowercase word
\* token of length > 2 outside the stopword set, and the empty job description
\* yields the empty set.
C6_KeywordSetInvariant ==
  pc = "done" =>
    /\ \A k \in keywords : IsLowerWord(k) /\ Len(k) > 2 /\ k \notin STOPWORDS
    /\ job_description = <<>> => keywords = {}

\* C6 witness: keywords were extracted from a job description with upper-case
\* letters that also holds a stopword longer than two characters.
C6_Witness ==
  /\ pc = "done"
  /\ keywords # {}
  /\ job_description # Lower(job_description)
  /\ \E w \in FindAllWords(Lower(job_description)) : w \in STOPWORDS /\ Len(w) > 2

\* Whether tag stands in s at position p
TagAt(s, p, tag) ==
  /\ p + Len(tag) - 1 <= Len(s)
  /\ \A j \in DOMAIN tag : s[p + j - 1] = tag[j]

\* Reading a highlighted text back: the text without the tags, the spans as
\* <<first, last>> positions of that text in order of appearance, and whether
\* the tags pair up without nesting.
RECURSIVE ReadSpans(_, _, _, _, _, _)
ReadSpans(out, p, text, open, spans, ok) ==
  IF p > Len(out) THEN [text |-> text, spans |-> spans, ok |-> ok /\ open = 0]
  ELSE IF TagAt(out, p, SpanOpen)
    THEN ReadSpans(out, p + Len(SpanOpen), text, Len(text) + 1, spans, ok /\ open = 0)
  ELSE IF TagAt(out, p, SpanClose)
    THEN ReadSpans(out, p + Len(SpanClose), text, 0,
                   Append(spans, <<open, Len(text)>>), ok /\ open # 0)
  ELSE ReadSpans(out, p + 1, Append(text, out[p]), open, spans, ok)

Highlighted == ReadSpans(highlighted_text, 1, <<>>, 0, <<>>, TRUE)

\* The whole-word occurrences of keywords in the resume text, in any letter case
KeywordOccurrences ==
  {r \in WordRuns(resume_text.v) : Lower(SubSeq(resume_text.v, r[1], r[2])) \in keywords}

\* C7: every whole-word occurrence of a keyword, in any letter case, is wrapped
\* in exactly one span holding the original substring; spans do not overlap and
\* none is wrapped again.
C7_EveryOccurrenceWrappedOnce ==
  pc = "done" =>
    LET h == Highlighted
    IN /\ h.ok
       /\ h.text = resume_text.v
       /\ \A r \in KeywordOccurrences :
            Cardinality({i \in DOMAIN h.spans : h.spans[i] = r}) = 1
       /\ \A i \in DOMAIN h.spans : \A j \in DOMAIN h.spans :
            i < j => h.spans[i][2] < h.spans[j][1]

\* C7 witness: two occurrences were wrapped, one of them in a letter case that
\* differs from the keyword's.
C7_Witness ==
  /\ pc = "done"
  /\ Cardinality(KeywordOccurrences) >= 2
  /\ Len(Highlighted.spans) >= 2
  /\ \E r \in KeywordOccurrences : SubSeq(resume_text.v, r[1], r[2]) \notin keywords

\* C8: every span is a whole word of the resume text, bounded on both sides by a
\* non-word character or the end of the string, so a keyword inside a longer
\* word is not highlighted.
C8_SpansAreWholeWords ==
  pc = "done" =>
    \A i \in DOMAIN Highlighted.spans : Highlighted.spans[i] \in KeywordOccurrences

\* A keyword stands in the resume text inside a longer word
KeywordInsideLongerWord ==
  \E k \in keywords : \E r \in WordRuns(resume_text.v) :
    /\ r[2] - r[1] + 1 > Len(k)
    /\ \E p \in r[1]..(r[2] - Len(k) + 1) : AltMatches(k, resume_text.v, p)

\* C8 witness: a keyword stands only inside a longer word, and nothing was wrapped.
C8_Witness ==
  /\ pc = "done"
  /\ KeywordInsideLongerWord
  /\ KeywordOccurrences = {}
  /\ highlighted_text = resume_text.v

\* C9: with an empty keyword set, highlight_keywords returns the resume text
\* unchanged.
C9_EmptyKeywordSetIdentity ==
  (pc = "done" /\ keywords = {}) => highlighted_text = resume_text.v

\* C9 witness: a job description of stopwords and short tokens left a resume
\* text with words in it unchanged.
C9_Witness ==
  /\ pc = "done"
  /\ keywords = {}
  /\ job_description # <<>>
  /\ WordRuns(resume_text.v) # {}
  /\ highlighted_text = resume_text.v

(***************************************************************************)
(* json.loads, called at src/app.py line 57, on the model's characters.    *)
(* The texts of the model hold no backslash, so a string literal is read   *)
(* without escape sequences and a backslash ends the parse in an error.    *)
(***************************************************************************)
PyInt(n) == [t |-> "int", v |-> n]
PyFloat(lit) == [t |-> "float", v |-> lit]
PyBool(b) == [t |-> "bool", v |-> b]
PyNull == [t |-> "null"]
PyList(items) == [t |-> "list", v |-> items]
PyDict(f) == [t |-> "dict", v |-> f]

\* The character at p, "" past the end
At(s, p) == IF p >= 1 /\ p <= Len(s) THEN s[p] ELSE ""

\* Whether the literal lit stands in s at position p
StartsAt(s, p, lit) ==
  /\ p + Len(lit) - 1 <= Len(s)
  /\ \A j \in DOMAIN lit : s[p + j - 1] = lit[j]

Scanned(value, next) == [ok |-> TRUE, val |-> value, pos |-> next]
ScanError == [ok |-> FALSE, val |-> None, pos |-> 0]

JsonWs == {" ", "\t", "\n", "\r"}

DigitChars == Range(Digits)

DigitValue == [c \in DigitChars |-> (CHOOSE i \in DOMAIN Digits : Digits[i] = c) - 1]

\* First position from p on that holds no JSON whitespace
RECURSIVE SkipWs(_, _)
SkipWs(s, p) == IF At(s, p) \in JsonWs THEN SkipWs(s, p + 1) ELSE p

\* First position from p on that holds no digit
RECURSIVE DigitsEnd(_, _)
DigitsEnd(s, p) == IF At(s, p) \in DigitChars THEN DigitsEnd(s, p + 1) ELSE p

\* The number written by the digits s[p..q]
RECURSIVE DigitsToInt(_, _, _)
DigitsToInt(s, p, q) ==
  IF q < p THEN 0 ELSE 10 * DigitsToInt(s, p, q - 1) + DigitValue[s[q]]

\* A string literal whose opening quote stands at p - 1
ScanString(s, p) ==
  LET ends == {q \in p..Len(s) : s[q] = "\""}
  IN IF ends = {} THEN ScanError
     ELSE LET q == CHOOSE e \in ends : \A f \in ends : e <= f
          IN IF \E i \in p..(q - 1) : s[i] \in {"\\", "\n", "\t", "\r", "\f"}
               THEN ScanError
               ELSE Scanned(PyStr(SubSeq(s, p, q - 1)), q + 1)

\* A number at p: -?(0|[1-9][0-9]*)(\.[0-9]+)?([eE][-+]?[0-9]+)?
ScanNumber(s, p) ==
  LET i == IF At(s, p) = "-" THEN p + 1 ELSE p
      intEnd == IF At(s, i) = "0" THEN i + 1 ELSE DigitsEnd(s, i)
      fracEnd == IF At(s, intEnd) = "." /\ At(s, intEnd + 1) \in DigitChars
                   THEN DigitsEnd(s, intEnd + 1) ELSE intEnd
      j == IF At(s, fracEnd + 1) \in {"+", "-"} THEN fracEnd + 2 ELSE fracEnd + 1
      expEnd == IF At(s, fracEnd) \in {"e", "E"} /\ At(s, j) \in DigitChars
                  THEN DigitsEnd(s, j) ELSE fracEnd
  IN IF At(s, i) \notin DigitChars THEN ScanError
     ELSE IF expEnd = intEnd
       THEN Scanned(PyInt((IF i = p THEN 1 ELSE -1) * DigitsToInt(s, i, intEnd - 1)), intEnd)
       ELSE Scanned(PyFloat(SubSeq(s, p, expEnd - 1)), expEnd)

LitNull == <<"n", "u", "l", "l">>
LitTrue == <<"t", "r", "u", "e">>
LitFalse == <<"f", "a", "l", "s", "e">>
LitNaN == <<"N", "a", "N">>
LitInfinity == <<"I", "n", "f", "i", "n", "i", "t", "y">>
LitMinusInfinity == <<"-">> \o LitInfinity

RECURSIVE ScanValue(_, _)
RECURSIVE ScanMembers(_, _, _)
RECURSIVE ScanItems(_, _, _)

\* The members of an object from the key's opening quote at p on; seen holds
\* the members read so far, a repeated key keeping its last value
ScanMembers(s, p, seen) ==
  LET key == ScanString(s, p + 1)
      colon == SkipWs(s, key.pos)
      val == ScanValue(s, SkipWs(s, colon + 1))
      seenNow == (key.val.v :> val.val) @@ seen
      after == SkipWs(s, val.pos)
      next == SkipWs(s, after + 1)
  IN IF ~key.ok \/ At(s, colon) # ":" THEN ScanError
     ELSE IF ~val.ok THEN ScanError
     ELSE IF At(s, after) = "}" THEN Scanned(PyDict(seenNow), after + 1)
     ELSE IF At(s, after) # "," \/ At(s, next) # "\"" THEN ScanError
     ELSE ScanMembers(s, next, seenNow)

\* The items of an array from the first character of an item at p on
ScanItems(s, p, seen) ==
  LET val == ScanValue(s, p)
      seenNow == Append(seen, val.val)
      after == SkipWs(s, val.pos)
  IN IF ~val.ok THEN ScanError
     ELSE IF At(s, after) = "]" THEN Scanned(PyList(seenNow), after + 1)
     ELSE IF At(s, after) # "," THEN ScanError
     ELSE ScanItems(s, SkipWs(s, after + 1), seenNow)

\* One JSON value starting at p
ScanValue(s, p) ==
  LET c == At(s, p)
      q == SkipWs(s, p + 1)
  IN IF c = "\"" THEN ScanString(s, p + 1)
     ELSE IF c = "{"
       THEN IF At(s, q) = "}" THEN Scanned(PyDict(<<>>), q + 1)
            ELSE IF At(s, q) # "\"" THEN ScanError
            ELSE ScanMembers(s, q, <<>>)
     ELSE IF c = "["
       THEN IF At(s, q) = "]" THEN Scanned(PyList(<<>>), q + 1)
            ELSE ScanItems(s, q, <<>>)
     ELSE IF StartsAt(s, p, LitNull) THEN Scanned(PyNull, p + 4)
     ELSE IF StartsAt(s, p, LitTrue) THEN Scanned(PyBool(TRUE), p + 4)
     ELSE IF StartsAt(s, p, LitFalse) THEN Scanned(PyBool(FALSE), p + 5)
     ELSE IF StartsAt(s, p, LitNaN) THEN Scanned(PyFloat(LitNaN), p + 3)
     ELSE IF StartsAt(s, p, LitInfinity) THEN Scanned(PyFloat(LitInfinity), p + 8)
     ELSE IF StartsAt(s, p, LitMinusInfinity) THEN Scanned(PyFloat(LitMinusInfinity), p + 9)
     ELSE ScanNumber(s, p)

\* json.loads(s): one value with whitespace around it and nothing else;
\* ok is FALSE where json.loads raises JSONDecodeError
JsonLoads(s) ==
  LET r == ScanValue(s, SkipWs(s, 1))
  IN IF r.ok /\ SkipWs(s, r.pos) = Len(s) + 1 THEN r ELSE ScanError

(***************************************************************************)
(* extract_json_from_response, src/app.py lines 45-60.                     *)
(***************************************************************************)
\* The backtick character, which a TLA+ string cannot hold, under a name
Backtick == "U+0060"

\* The literal removed at line 51: six backticks
SixBackticks == <<Backtick, Backtick, Backtick, Backtick, Backtick, Backtick>>

Positions(s, c) == {i \in DOMAIN s : s[i] = c}

Min(S) == CHOOSE x \in S : \A y \in S : x <= y
Max(S) == CHOOSE x \in S : \A y \in S : x >= y

\* s.replace(old, ""), scanning from position p: the occurrences of old are
\* taken from left to right, each search resuming after the one removed
RECURSIVE RemoveAll(_, _, _)
RemoveAll(s, old, p) ==
  LET found == {q \in p..Len(s) : StartsAt(s, q, old)}
  IN IF found = {} THEN SubSeq(s, p, Len(s))
     ELSE SubSeq(s, p, Min(found) - 1) \o RemoveAll(s, old, Min(found) + Len(old))

\* The same search with a lazy quantifier, r"\{.*?\}": to the first "}"
SearchBracesLazy(s) ==
  IF Positions(s, "{") = {} THEN <<0, 0>>
  ELSE LET first == Min(Positions(s, "{"))
           closing == {j \in Positions(s, "}") : j > first}
       IN IF closing = {} THEN <<0, 0>> ELSE <<first, Min(closing)>>

\* re.search(r"\{.*\}", s, re.DOTALL): from the first "{" to the last "}" after
\* it, <<0, 0>> when there is no match
SearchBraces(s) ==
  IF Positions(s, "{") = {} THEN <<0, 0>>
  ELSE LET first == Min(Positions(s, "{"))
           closing == {j \in Positions(s, "}") : j > first}
       IN IF closing = {} THEN <<0, 0>> ELSE <<first, Max(closing)>>

extract_json_from_response(text) ==
  LET cleaned == StripWs(RemoveAll(text, SixBackticks, 1))
      match == SearchBraces(cleaned)
      loaded == JsonLoads(SubSeq(cleaned, match[1], match[2]))
  IN IF match # <<0, 0>>
       THEN IF loaded.ok THEN loaded.val ELSE None
       ELSE None

(***************************************************************************)
(* Python values: truth value and dict.get.                                *)
(***************************************************************************)
\* bool(v), as "if not analysis_result" and "if analysis_result" take it
Truthy(v) ==
  IF v.t = "None" \/ v.t = "null" THEN FALSE
  ELSE IF v.t = "dict" THEN DOMAIN v.v # {}
  ELSE IF v.t = "list" \/ v.t = "str" THEN v.v # <<>>
  ELSE IF v.t = "int" THEN v.v # 0
  ELSE IF v.t = "bool" THEN v.v
  ELSE TRUE

\* d.get(key, default) on a dict
DictGet(d, key, default) == IF key \in DOMAIN d.v THEN d.v[key] ELSE default

(***************************************************************************)
(* The keys of the schema the prompt asks for, src/app.py lines 87-92.     *)
(***************************************************************************)
KeyAtsScore == <<"a", "t", "s", "_", "s", "c", "o", "r", "e">>
KeyMissingKeywords ==
  <<"m", "i", "s", "s", "i", "n", "g", "_", "k", "e", "y", "w", "o", "r", "d", "s">>
KeyFeedback == <<"f", "e", "e", "d", "b", "a", "c", "k">>
KeyExtractedSkills ==
  <<"e", "x", "t", "r", "a", "c", "t", "e", "d", "_", "s", "k", "i", "l", "l", "s">>
KeyContactInfo == <<"c", "o", "n", "t", "a", "c", "t", "_", "i", "n", "f", "o">>
KeyEmails == <<"e", "m", "a", "i", "l", "s">>
KeyPhoneNumbers == <<"p", "h", "o", "n", "e", "_", "n", "u", "m", "b", "e", "r", "s">>

(***************************************************************************)
(* What the oracle may write.  An object to be written is kept with its    *)
(* members in order, as <<key, value>> pairs.                              *)
(***************************************************************************)
Obj(pairs) == [t |-> "obj", v |-> pairs]

\* The Python value a written object stands for
RECURSIVE ToPy(_)
RECURSIVE PairsToDict(_)
ToPy(x) ==
  IF x.t = "obj" THEN PyDict(PairsToDict(x.v))
  ELSE IF x.t = "list" THEN PyList([i \in DOMAIN x.v |-> ToPy(x.v[i])])
  ELSE x

PairsToDict(pairs) ==
  IF pairs = <<>> THEN <<>>
  ELSE LET last == pairs[Len(pairs)]
       IN (last[1] :> ToPy(last[2])) @@ PairsToDict(SubSeq(pairs, 1, Len(pairs) - 1))

\* The decimal digits of a natural number
RECURSIVE NatDigits(_)
NatDigits(n) ==
  IF n < 10 THEN <<Digits[n + 1]>> ELSE NatDigits(n \div 10) \o <<Digits[(n % 10) + 1]>>

\* The JSON text of a value; lines says whether the members of an object stand
\* on lines of their own
RECURSIVE Encode(_, _)
RECURSIVE EncodeItems(_, _)
RECURSIVE EncodeMembers(_, _)
Encode(x, lines) ==
  IF x.t = "int" THEN (IF x.v < 0 THEN <<"-">> \o NatDigits(-x.v) ELSE NatDigits(x.v))
  ELSE IF x.t = "str" THEN <<"\"">> \o x.v \o <<"\"">>
  ELSE IF x.t = "list" THEN <<"[">> \o EncodeItems(x.v, lines) \o <<"]">>
  ELSE IF x.v = <<>> THEN <<"{", "}">>
  ELSE IF lines THEN <<"{", "\n">> \o EncodeMembers(x.v, lines) \o <<"\n", "}">>
  ELSE <<"{">> \o EncodeMembers(x.v, lines) \o <<"}">>

EncodeItems(items, lines) ==
  IF items = <<>> THEN <<>>
  ELSE IF Len(items) = 1 THEN Encode(Head(items), lines)
  ELSE Encode(Head(items), lines) \o <<",", " ">> \o EncodeItems(Tail(items), lines)

EncodeMembers(pairs, lines) ==
  LET member == <<"\"">> \o Head(pairs)[1] \o <<"\"", ":", " ">>
                  \o Encode(Head(pairs)[2], lines)
  IN IF Len(pairs) = 1 THEN member
     ELSE member \o <<",", IF lines THEN "\n" ELSE " ">> \o EncodeMembers(Tail(pairs), lines)

TextAgile == <<"A", "g", "i", "l", "e">>
TextSQL == <<"S", "Q", "L">>
TextAddMetrics == <<"A", "d", "d", " ", "m", "e", "t", "r", "i", "c", "s", ".">>
TextHigh == <<"h", "i", "g", "h">>

ResultFull ==
  Obj(<< <<KeyAtsScore, PyInt(72)>>,
         <<KeyMissingKeywords, PyList(<<PyStr(TextAgile)>>)>>,
         <<KeyFeedback, PyStr(TextAddMetrics)>>,
         <<KeyExtractedSkills, PyList(<<PyStr(TextSQL)>>)>>,
         <<KeyContactInfo, Obj(<< <<KeyEmails, PyList(<<>>)>>,
                                  <<KeyPhoneNumbers, PyList(<<>>)>> >>)>> >>)

ResultEmpty == Obj(<<>>)

ResultScoreOnly == Obj(<< <<KeyAtsScore, PyInt(72)>> >>)

ResultZeroScore == Obj(<< <<KeyAtsScore, PyInt(0)>>, <<KeyMissingKeywords, PyList(<<>>)>> >>)

\* A feedback text with braces in it
ResultBraces == Obj(<< <<KeyFeedback, PyStr(<<"{", "x", "}", "}">>)>> >>)

\* A feedback text that is six backticks
ResultBackticks == Obj(<< <<KeyFeedback, PyStr(SixBackticks)>> >>)

\* Objects that fit the schema of AnalysisResult
ValidResults ==
  {ResultFull, ResultEmpty, ResultScoreOnly, ResultZeroScore, ResultBraces, ResultBackticks}

\* Objects with a known field of the wrong type
WrongTypedResults ==
  {Obj(<< <<KeyAtsScore, PyStr(TextHigh)>> >>),
   Obj(<< <<KeyAtsScore, PyInt(72)>>, <<KeyMissingKeywords, PyInt(1)>> >>)}

\* Texts that are no JSON value: nothing, prose, a cut-off object, an object
\* with a trailing comma, two objects side by side
BrokenPayloads ==
  {<<>>,
   <<"x">>,
   SubSeq(Encode(ResultScoreOnly, FALSE), 1, Len(Encode(ResultScoreOnly, FALSE)) - 1),
   <<"{">> \o EncodeMembers(ResultScoreOnly.v, FALSE) \o <<",", "}">>,
   Encode(ResultScoreOnly, FALSE) \o <<" ">> \o Encode(ResultEmpty, FALSE)}

Payloads ==
  {Encode(o, lines) : o \in ValidResults \cup WrongTypedResults, lines \in BOOLEAN}
    \cup BrokenPayloads

\* Opening and closing marker of the code fence around the payload
Fences ==
  {<<<<>>, <<>>>>,
   <<<<Backtick, Backtick, Backtick>>, <<Backtick, Backtick, Backtick>>>>,
   <<<<Backtick, Backtick, Backtick, "j", "s", "o", "n", "\n">>,
     <<"\n", Backtick, Backtick, Backtick>>>>,
   <<SixBackticks, SixBackticks>>}

ProseChars == {"x", "{", "}"}

OracleOutputs ==
  [before : BoundedSeq(ProseChars, MaxProse), fence : Fences,
   payload : Payloads, after : BoundedSeq(ProseChars, MaxProse)]

\* The raw text of what the oracle wrote
RawText(o) == o.before \o o.fence[1] \o o.payload \o o.fence[2] \o o.after

(***************************************************************************)
(* Response extraction: extract_json_from_response on a raw response.      *)
(***************************************************************************)
InitJson ==
  /\ uploaded_file = NoFile
  /\ resume_text = None
  /\ job_description = <<>>
  /\ keywords = {}
  /\ highlighted_text = <<>>
  /\ sent \in OracleOutputs
  /\ response_text = RawText(sent)
  /\ json_result = None
  /\ analysis_result = None
  /\ oracle_calls = 0
  /\ report = NoReport
  /\ pc = "input"

ExtractJson ==
  /\ pc = "input"
  /\ json_result' = extract_json_from_response(response_text)
  /\ pc' = "done"
  /\ UNCHANGED <<uploaded_file, resume_text, job_description, keywords, highlighted_text,
                 sent, response_text, analysis_result, oracle_calls, report>>

NextJson == ExtractJson

SpecJson == InitJson /\ [][NextJson]_vars

(***************************************************************************)
(* The analysis request: get_gemini_analysis, src/app.py lines 63-123,     *)
(* called from main at line 266, and the report main renders from its      *)
(* result, lines 273-312.  The oracle call is the one point where the      *)
(* handler waits, so the call is followed step by step.                    *)
(***************************************************************************)
TextNoFeedback ==
  <<"N", "o", " ", "f", "e", "e", "d", "b", "a", "c", "k", " ",
    "p", "r", "o", "v", "i", "d", "e", "d", ".">>
TextNotFound == <<"N", "o", "t", " ", "F", "o", "u", "n", "d">>

\* Whether ", ".join(v) succeeds: an iterable of strings
Joinable(v) ==
  \/ v.t \in {"str", "dict"}
  \/ v.t = "list" /\ \A i \in DOMAIN v.v : v.v[i].t = "str"

\* Whether "for keyword in v" succeeds
Iterable(v) == v.t \in {"str", "dict", "list"}

\* Lines 273-312: the values main reads out of the result with dict.get and
\* shows, the error of line 309 for a false result, or the exception a value
\* of an unexpected type raises on the way
RenderedReport(result) ==
  IF ~Truthy(result) THEN [status |-> "error"]
  ELSE LET contact == DictGet(result, KeyContactInfo, PyDict(<<>>))
           emails == DictGet(contact, KeyEmails, PyList(<<PyStr(TextNotFound)>>))
           phones == DictGet(contact, KeyPhoneNumbers, PyList(<<PyStr(TextNotFound)>>))
           missing == DictGet(result, KeyMissingKeywords, PyList(<<>>))
           skills == DictGet(result, KeyExtractedSkills, PyList(<<>>))
       IN IF contact.t # "dict" THEN [status |-> "exception"]
          ELSE IF ~Joinable(emails) \/ ~Joinable(phones) THEN [status |-> "exception"]
          ELSE IF Truthy(missing) /\ ~Iterable(missing) THEN [status |-> "exception"]
          ELSE IF Truthy(skills) /\ ~Joinable(skills) THEN [status |-> "exception"]
          ELSE [status |-> "success",
                ats_score |-> DictGet(result, KeyAtsScore, PyInt(0)),
                emails |-> emails,
                phone_numbers |-> phones,
                feedback |-> DictGet(result, KeyFeedback, PyStr(TextNoFeedback)),
                missing_keywords |-> missing,
                extracted_skills |-> skills]

\* Lines 113-120: a false result is reported and None returned
CheckedResult(result) == IF ~Truthy(result) THEN None ELSE result

\* main calls get_gemini_analysis only with a resume text and a job
\* description that are not empty (lines 255-260)
InitAnalysis ==
  /\ uploaded_file = NoFile
  /\ resume_text \in {PyStr(<<"a", "a", "b">>), PyStr(<<"t", "h", "e">>)}
  /\ job_description \in {<<"a", "a", "b">>, <<"a", "b">>}
  /\ keywords = {}
  /\ highlighted_text = <<>>
  /\ sent = NoOracle
  /\ response_text = <<>>
  /\ json_result = None
  /\ analysis_result = None
  /\ oracle_calls = 0
  /\ report = NoReport
  /\ pc = "call"

\* Line 68: genai.GenerativeModel(...) returns the model
ConstructModel ==
  /\ pc = "call"
  /\ pc' = "model"
  /\ UNCHANGED <<uploaded_file, resume_text, job_description, keywords, highlighted_text,
                 sent, response_text, json_result, analysis_result, oracle_calls, report>>

\* Line 68: genai.GenerativeModel(...) raises; the statement stands before the
\* try of line 109, so the exception leaves get_gemini_analysis
ConstructModelRaises ==
  /\ pc = "call"
  /\ pc' = "raised"
  /\ UNCHANGED <<uploaded_file, resume_text, job_description, keywords, highlighted_text,
                 sent, response_text, json_result, analysis_result, oracle_calls, report>>

\* Line 110: model.generate_content(prompt) returns a response with a text
GenerateContent ==
  /\ pc = "model"
  /\ oracle_calls' = oracle_calls + 1
  /\ \E o \in OracleOutputs :
       /\ sent' = o
       /\ response_text' = RawText(o)
  /\ pc' = "response"
  /\ UNCHANGED <<uploaded_file, resume_text, job_description, keywords, highlighted_text,
                 json_result, analysis_result, report>>

\* Lines 110-112 and 121-123: generate_content, or reading response.text,
\* raises; the except clause reports the error and returns None
GenerateContentRaises ==
  /\ pc = "model"
  /\ oracle_calls' = oracle_calls + 1
  /\ analysis_result' = None
  /\ pc' = "returned"
  /\ UNCHANGED <<uploaded_file, resume_text, job_description, keywords, highlighted_text,
                 sent, response_text, json_result, report>>

\* Lines 112-120: the response text goes through extract_json_from_response
\* and the check of its result
ExtractAndCheck ==
  /\ pc = "response"
  /\ json_result' = extract_json_from_response(response_text)
  /\ analysis_result' = CheckedResult(extract_json_from_response(response_text))
  /\ pc' = "returned"
  /\ UNCHANGED <<uploaded_file, resume_text, job_description, keywords, highlighted_text,
                 sent, response_text, oracle_calls, report>>

\* Lines 273-312 of main
RenderReport ==
  /\ pc = "returned"
  /\ report' = RenderedReport(analysis_result)
  /\ pc' = "shown"
  /\ UNCHANGED <<uploaded_file, resume_text, job_description, keywords, highlighted_text,
                 sent, response_text, json_result, analysis_result, oracle_calls>>

NextAnalysis ==
  \/ ConstructModel
  \/ ConstructModelRaises
  \/ GenerateContent
  \/ GenerateContentRaises
  \/ ExtractAndCheck
  \/ RenderReport

SpecAnalysis == InitAnalysis /\ [][NextAnalysis]_vars

(***************************************************************************)
(* Properties of response extraction and of the analysis request.          *)
(***************************************************************************)
HasBrace(s) == \E i \in DOMAIN s : s[i] \in {"{", "}"}

HasSixBackticks(s) == \E p \in DOMAIN s : StartsAt(s, p, SixBackticks)

\* The oracle wrote a valid AnalysisResult as its payload
SentValidResult == \E o \in ValidResults : \E lines \in BOOLEAN : sent.payload = Encode(o, lines)

\* The Python value of the object the oracle wrote
SentValue ==
  ToPy(CHOOSE o \in ValidResults \cup WrongTypedResults :
         \E lines \in BOOLEAN : sent.payload = Encode(o, lines))

SentWrongTyped ==
  /\ \E o \in WrongTypedResults : \E lines \in BOOLEAN : sent.payload = Encode(o, lines)
  /\ ~HasBrace(sent.before) /\ ~HasBrace(sent.after)

\* C2: a response that parses as an object with a known field of the wrong type
\* makes extract_json_from_response fail; the wrong-typed value is not returned.
C2_WrongTypeIsFailure ==
  (pc = "done" /\ SentWrongTyped) => json_result = None

\* What extract_json_from_response returns for a slice that does not parse
MalformedOutcome == extract_json_from_response(<<"{", "x", "}">>)

\* C4: a raw text without "{" or without "}" makes extract_json_from_response
\* fail, with an outcome the caller can tell from the one for a slice that does
\* not parse.
C4_NoJsonFoundDistinct ==
  (pc = "done" /\ (Positions(response_text, "{") = {} \/ Positions(response_text, "}") = {}))
    => json_result = None /\ json_result # MalformedOutcome

\* C3: a parsed object with fields absent, the empty object included, is accepted
\* as a result with the absent fields defaulted; the request fails only when
\* nothing was parsed.
C3_PartialObjectAccepted ==
  (pc \in {"returned", "shown"} /\ json_result.t = "dict") =>
    /\ analysis_result = json_result
    /\ pc = "shown" =>
         \/ report.status = "exception"
         \/ /\ report.status = "success"
            /\ KeyAtsScore \notin DOMAIN json_result.v => report.ats_score = PyInt(0)
            /\ KeyMissingKeywords \notin DOMAIN json_result.v =>
                 report.missing_keywords = PyList(<<>>)
            /\ KeyExtractedSkills \notin DOMAIN json_result.v =>
                 report.extracted_skills = PyList(<<>>)
            /\ KeyFeedback \notin DOMAIN json_result.v => report.feedback = PyStr(<<>>)
            /\ KeyContactInfo \notin DOMAIN json_result.v =>
                 report.emails = PyList(<<>>) /\ report.phone_numbers = PyList(<<>>)

\* C5: every call of get_gemini_analysis calls the oracle exactly once and ends
\* by returning a result or a failure value; no exception leaves it.
C5_OneCallNoEscape ==
  pc \in {"raised", "returned", "shown"} => pc # "raised" /\ oracle_calls = 1

====
